---- MODULE Spec2Model ----
(***************************************************************************)
(* A model of src/src/use-query-string-state.ts: the default query-string  *)
(* codec (parseQueryString / stringifyQueryString), the coercion helpers   *)
(* (isNumber / toNumberable) and the useQueryStringState hook (initial     *)
(* state, setState, reset, the popstate handler).                          *)
(*                                                                         *)
(* Strings are sequences of one-character strings, so that splitting on    *)
(* "&" and "=", percent-encoding and numeric parsing are computed and not  *)
(* assumed.  A JavaScript value is a record [t, v]: t is "str", "num",     *)
(* "arr" or "null".  A JavaScript object is a sequence of <<key, value>>   *)
(* pairs in insertion order (no modelled key is an integer-like string,    *)
(* the only keys JavaScript would reorder).                                *)
(*                                                                         *)
(* Specifications: Spec, the sessions of one mounted component with the    *)
(* default codec; CodecSpec, the pure functions applied to drawn inputs;   *)
(* RaisingSpec, the sessions whose codec throws; LifecycleSpec, the mount, *)
(* re-renders with other options and unmount, and the popstate listeners   *)
(* they register; TallySpec, the sessions of Spec with their calls         *)
(* counted; TwinSpec, two sessions that receive the same calls.            *)
(***************************************************************************)
EXTENDS Integers, Sequences, FiniteSets, TLC

\* ------------------------------------------------------------------------
\* Bounds of the model.
\* ------------------------------------------------------------------------
\* The longest session history the model follows.
MaxHistory == 3

\* The most calls of setState (reset's function included) TallySpec counts.
MaxCalls == 3

\* ------------------------------------------------------------------------
\* JavaScript values and objects.
\* ------------------------------------------------------------------------
Str(s) == [t |-> "str", v |-> s]
Num(n) == [t |-> "num", v |-> n]
Arr(a) == [t |-> "arr", v |-> a]
Null == [t |-> "null", v |-> <<>>]

RECURSIVE HasKey(_, _)
HasKey(obj, k) ==
  IF obj = <<>> THEN FALSE
  ELSE IF Head(obj)[1] = k THEN TRUE ELSE HasKey(Tail(obj), k)

\* obj[k]; only used where HasKey(obj, k).
RECURSIVE GetKey(_, _)
GetKey(obj, k) ==
  IF Head(obj)[1] = k THEN Head(obj)[2] ELSE GetKey(Tail(obj), k)

\* obj[k] = v: an existing property keeps its place, a new one is appended.
RECURSIVE PutKey(_, _, _)
PutKey(obj, k, v) ==
  IF obj = <<>> THEN << <<k, v>> >>
  ELSE IF Head(obj)[1] = k THEN << <<k, v>> >> \o Tail(obj)
  ELSE <<Head(obj)>> \o PutKey(Tail(obj), k, v)

\* Object.assign(target, source).
RECURSIVE ObjectAssign(_, _)
ObjectAssign(target, source) ==
  IF source = <<>> THEN target
  ELSE ObjectAssign(PutKey(target, Head(source)[1], Head(source)[2]), Tail(source))

KeySet(obj) == {obj[i][1] : i \in 1..Len(obj)}

\* Properties every object inherits from Object.prototype; the model's URLs
\* use one of them.
kValueOf == <<"v", "a", "l", "u", "e", "O", "f">>
ProtoKeys == {kValueOf}

\* The JavaScript `in` operator: own and inherited properties.
InOp(k, obj) == HasKey(obj, k) \/ k \in ProtoKeys

\* ------------------------------------------------------------------------
\* Characters, numbers and their string forms.
\* ------------------------------------------------------------------------
Digits == <<"0", "1", "2", "3", "4", "5", "6", "7", "8", "9">>
IsDigit(c) == \E i \in 1..10 : Digits[i] = c
DigitVal(c) == (CHOOSE i \in 1..10 : Digits[i] = c) - 1

RECURSIVE NatToStr(_)
NatToStr(n) ==
  IF n < 10 THEN <<Digits[n + 1]>>
  ELSE NatToStr(n \div 10) \o <<Digits[(n % 10) + 1]>>

\* String(n) for an integer n.
NumToStr(n) == IF n < 0 THEN <<"-">> \o NatToStr(0 - n) ELSE NatToStr(n)

\* String(value) as encodeURIComponent applies it to a scalar.
ToStr(val) == IF val.t = "num" THEN NumToStr(val.v) ELSE val.v

RECURSIVE TrimLeft(_)
TrimLeft(s) ==
  IF s # <<>> /\ Head(s) = " " THEN TrimLeft(Tail(s)) ELSE s

RECURSIVE TrimRight(_)
TrimRight(s) ==
  IF s # <<>> /\ s[Len(s)] = " " THEN TrimRight(SubSeq(s, 1, Len(s) - 1)) ELSE s

Trim(s) == TrimRight(TrimLeft(s))

AllDigits(s) == s # <<>> /\ \A i \in 1..Len(s) : IsDigit(s[i])

RECURSIVE DigitsToNat(_)
DigitsToNat(s) ==
  IF s = <<>> THEN 0
  ELSE 10 * DigitsToNat(SubSeq(s, 1, Len(s) - 1)) + DigitVal(s[Len(s)])

\* The numeric literals the model's strings can spell: an optional sign and
\* decimal digits (no modelled string holds ".", an exponent, a radix prefix
\* or "Infinity").
IsNumericLiteral(s) ==
  \/ AllDigits(s)
  \/ s # <<>> /\ Head(s) \in {"-", "+"} /\ AllDigits(Tail(s))

\* Number(str) for a string isNumber accepted.
StrToNum(str) ==
  LET s == Trim(str) IN
  IF Head(s) = "-" THEN 0 - DigitsToNat(Tail(s))
  ELSE IF Head(s) = "+" THEN DigitsToNat(Tail(s))
  ELSE DigitsToNat(s)

isNumber(val) ==
  IF val.t = "num" THEN TRUE
  ELSE IF val.t = "str" /\ Trim(val.v) # <<>> THEN IsNumericLiteral(Trim(val.v))
  ELSE FALSE

RECURSIVE toNumberable(_)
toNumberable(val) ==
  IF val.t = "arr"
    THEN Arr([i \in 1..Len(val.v) |-> toNumberable(val.v[i])])
  ELSE IF val.t = "str"
    THEN (IF isNumber(val) THEN Num(StrToNum(val.v)) ELSE val)
  ELSE val

\* ------------------------------------------------------------------------
\* Percent-encoding.
\* ------------------------------------------------------------------------
\* <<character, first hex digit, second hex digit>> of the characters of the
\* model's alphabet that both encoders escape.
Escapes ==
  { <<" ", "2", "0">>, <<"%", "2", "5">>, <<"&", "2", "6">>,
    <<"+", "2", "B">>, <<"=", "3", "D">> }

IsEscaped(c) == \E e \in Escapes : e[1] = c
EscapeOf(c) == LET e == CHOOSE x \in Escapes : x[1] = c IN <<"%", e[2], e[3]>>

RECURSIVE encodeURIComponent(_)
encodeURIComponent(s) ==
  IF s = <<>> THEN <<>>
  ELSE (IF IsEscaped(Head(s)) THEN EscapeOf(Head(s)) ELSE <<Head(s)>>)
       \o encodeURIComponent(Tail(s))

\* The application/x-www-form-urlencoded byte serializer: a space becomes "+".
RECURSIVE FormEncode(_)
FormEncode(s) ==
  IF s = <<>> THEN <<>>
  ELSE (IF Head(s) = " " THEN <<"+">>
        ELSE IF IsEscaped(Head(s)) THEN EscapeOf(Head(s))
        ELSE <<Head(s)>>)
       \o FormEncode(Tail(s))

RECURSIVE PercentDecode(_)
PercentDecode(s) ==
  IF s = <<>> THEN <<>>
  ELSE IF Head(s) = "%" /\ Len(s) >= 3 /\ \E e \in Escapes : e[2] = s[2] /\ e[3] = s[3]
    THEN <<(CHOOSE e \in Escapes : e[2] = s[2] /\ e[3] = s[3])[1]>>
         \o PercentDecode(SubSeq(s, 4, Len(s)))
  ELSE <<Head(s)>> \o PercentDecode(Tail(s))

PlusToSpace(s) == [i \in 1..Len(s) |-> IF s[i] = "+" THEN " " ELSE s[i]]

FormDecode(s) == PercentDecode(PlusToSpace(s))

\* ------------------------------------------------------------------------
\* URLSearchParams: a list of <<name, value>> pairs of decoded strings.
\* ------------------------------------------------------------------------
\* The index of the first sep in s, or 0.
RECURSIVE IndexOf(_, _, _)
IndexOf(s, sep, i) ==
  IF i > Len(s) THEN 0 ELSE IF s[i] = sep THEN i ELSE IndexOf(s, sep, i + 1)

RECURSIVE Split(_, _)
Split(s, sep) ==
  LET i == IndexOf(s, sep, 1) IN
  IF i = 0 THEN <<s>>
  ELSE <<SubSeq(s, 1, i - 1)>> \o Split(SubSeq(s, i + 1, Len(s)), sep)

PairOf(piece) ==
  LET i == IndexOf(piece, "=", 1) IN
  IF i = 0 THEN <<FormDecode(piece), <<>> >>
  ELSE <<FormDecode(SubSeq(piece, 1, i - 1)), FormDecode(SubSeq(piece, i + 1, Len(piece)))>>

RECURSIVE PairsOf(_)
PairsOf(pieces) ==
  IF pieces = <<>> THEN <<>>
  ELSE (IF Head(pieces) = <<>> THEN <<>> ELSE <<PairOf(Head(pieces))>>)
       \o PairsOf(Tail(pieces))

\* new URLSearchParams(str), and the searchParams of new URL(href).
URLSearchParams(str) == PairsOf(Split(str, "&"))

RECURSIVE JoinWith(_, _)
JoinWith(parts, sep) ==
  IF parts = <<>> THEN <<>>
  ELSE IF Len(parts) = 1 THEN Head(parts)
  ELSE Head(parts) \o <<sep>> \o JoinWith(Tail(parts), sep)

\* urlParams.toString().
ParamsToString(list) ==
  JoinWith([i \in 1..Len(list) |-> FormEncode(list[i][1]) \o <<"=">> \o FormEncode(list[i][2])],
           "&")

\* urlParams.getAll(key).
RECURSIVE getAll(_, _)
getAll(list, key) ==
  IF list = <<>> THEN <<>>
  ELSE (IF Head(list)[1] = key THEN <<Head(list)[2]>> ELSE <<>>) \o getAll(Tail(list), key)

\* urlParams.delete(key): every pair of that name goes.
RECURSIVE deleteKey(_, _)
deleteKey(list, key) ==
  IF list = <<>> THEN <<>>
  ELSE (IF Head(list)[1] = key THEN <<>> ELSE <<Head(list)>>) \o deleteKey(Tail(list), key)

\* new Set([...urlParams.keys()]): the names, each once, in order of first
\* occurrence.
RECURSIVE UniqueKeys(_, _)
UniqueKeys(list, seen) ==
  IF list = <<>> THEN <<>>
  ELSE IF Head(list)[1] \in seen THEN UniqueKeys(Tail(list), seen)
  ELSE <<Head(list)[1]>> \o UniqueKeys(Tail(list), seen \cup {Head(list)[1]})

\* ------------------------------------------------------------------------
\* The default codec.
\* ------------------------------------------------------------------------
\* typeof initialValue[key] === "number"; an inherited property is a function.
TypeofNumber(initialValue, key) ==
  HasKey(initialValue, key) /\ GetKey(initialValue, key).t = "num"

\* ParsedValue with the coercion decided by the value alone, not the schema.
ParsedValueByValue(urlParams, key, initialValue) ==
  LET all == getAll(urlParams, key) IN
  IF Len(all) > 1 THEN Arr([i \in 1..Len(all) |-> Str(all[i])])
  ELSE toNumberable(Str(all[1]))

\* ParsedValue with urlParams.get(key) for a repeated key too.
ParsedValueFirstOnly(urlParams, key, initialValue) ==
  LET all == getAll(urlParams, key) IN
  IF InOp(key, initialValue) /\ TypeofNumber(initialValue, key)
    THEN toNumberable(Str(all[1]))
  ELSE Str(all[1])

\* The value parseQueryString gives one key of the query.
ParsedValue(urlParams, key, initialValue) ==
  LET all == getAll(urlParams, key) IN
  IF Len(all) > 1 THEN Arr([i \in 1..Len(all) |-> Str(all[i])])
  ELSE IF InOp(key, initialValue) /\ TypeofNumber(initialValue, key)
    THEN toNumberable(Str(all[1]))
  ELSE Str(all[1])

parseQueryString(searchParams, initialValue) ==
  LET urlParams == URLSearchParams(searchParams)
      keys == UniqueKeys(urlParams, {})
  IN [i \in 1..Len(keys) |-> <<keys[i], ParsedValue(urlParams, keys[i], initialValue)>>]

\* Segment with the value left unencoded.
SegmentUnencoded(key, val) ==
  IF val.t = "null" THEN <<>>
  ELSE encodeURIComponent(key) \o <<"=">> \o ToStr(val)

\* One "key=value" segment, or the empty segment join("&") makes of the
\* undefined the callback returns for a null or undefined value.
Segment(key, val) ==
  IF val.t = "null" THEN <<>>
  ELSE encodeURIComponent(key) \o <<"=">> \o encodeURIComponent(ToStr(val))

\* The segments flatMap gives one entry of the object.
EntrySegments(key, val) ==
  IF val.t = "arr" THEN [i \in 1..Len(val.v) |-> Segment(key, val.v[i])]
  ELSE <<Segment(key, val)>>

RECURSIVE AllSegments(_)
AllSegments(obj) ==
  IF obj = <<>> THEN <<>>
  ELSE EntrySegments(Head(obj)[1], Head(obj)[2]) \o AllSegments(Tail(obj))

stringifyQueryString(obj) == JoinWith(AllSegments(obj), "&")

\* ------------------------------------------------------------------------
\* The hook: its state.
\* ------------------------------------------------------------------------
VARIABLES
  env,              \* "browser": window and a valid location.href;
                    \* "server": typeof window === "undefined";
                    \* "badurl": a window whose location.href is no valid URL
  isSyncPathname,   \* the option of that name
  hasDelegate,      \* onPathnameChange instanceof Function
  queryString,      \* the codec option: "default" is createQueryString(initialValue);
                    \* "parseRaises" and "stringifyRaises" are codecs of the
                    \* application whose parse, or stringify, throws
  initialValue,     \* the defaults object the hook is called with
  history,          \* the session history: the query of each entry
  idx,              \* the current entry: location.search is history[idx]
  state,            \* the value React holds for useState
  rendered,         \* the `state` the closures of the last render captured
  trace,            \* the effects of the last handler, in the order made
  last,             \* the last operation: its name and the kind of its payload
  listeners,        \* the popstate listeners of window the hook has registered
                    \* and not removed, in registration order; each is a
                    \* handlePopState closure: its identity and the
                    \* isSyncPathname and initialValue it captured
  effect,           \* the effect React last ran: its dependency array and the
                    \* listener its cleanup removes (NoCleanup: none)
  ref,              \* the identity of the initialValue object of the last render
  alive,            \* the component is mounted
  call,             \* CodecSpec: the last call of a pure function, with its
                    \* arguments and its result
  tally,            \* TallySpec: how many times the session so far has run
                    \* setState, the observer, history.pushState and the delegate
  twin              \* TwinSpec: a second session with the same options and
                    \* defaults: its history, idx, state and rendered

config == <<env, isSyncPathname, hasDelegate, queryString, initialValue>>

vars == <<env, isSyncPathname, hasDelegate, queryString, initialValue, history,
          idx, state, rendered, trace, last, listeners, effect, ref, alive,
          call, tally, twin>>

lifecycle == <<listeners, effect, ref, alive>>

\* What the sessions of Spec do not follow.
extras == <<tally, twin>>

\* url.pathname; no operation of the hook changes it.
pathname == <<"/", "s">>

\* The keys and values of the model's schemas and URLs, short to keep the
\* character-level work small: p(age), q, t(ags) are schema keys, r(ef) and
\* (e)x(tra) are foreign.  Keys are ordinary property names: none is
\* integer-like and none is "__proto__".
kPage == <<"p">>
kQ == <<"q">>
kTags == <<"t">>
kRef == <<"r">>
kExtra == <<"x">>

sHello == <<"h", "i">>
sAbc == <<"a", "b">>

\* The defaults object of the sessions of Spec: a number and a string default.
Defaults ==
  << <<kPage, Num(1)>>, <<kQ, Str(<<>>)>> >>

Schemas == {Defaults}

\* The text "k=v&k=v" of raw (already encoded) names and values.
RawQuery(pairs) ==
  JoinWith([i \in 1..Len(pairs) |-> pairs[i][1] \o <<"=">> \o pairs[i][2]], "&")

\* The queries a session's first URL carries: the schema's keys, and two
\* adjacent foreign keys before a schema key.
InitialQueries ==
  { RawQuery(<< <<kPage, <<"2">>>>, <<kQ, sHello>> >>),
    RawQuery(<< <<kRef, sAbc>>, <<kExtra, <<"x">>>>, <<kPage, <<"+", "0", "5">>>> >>) }

windowDefined == env # "server"

\* isValidUrl(window.location.href)
isValidUrl == env = "browser"

\* url.searchParams of new URL(window.location.href)
search == history[idx]

\* The loop of getInitialStateWithQueryString over url.searchParams.keys():
\* the iterator is an index into the live list, so a delete moves the
\* following pairs under the index already passed.
RECURSIVE DeleteForeign(_, _, _)
DeleteForeign(list, i, defaults) ==
  IF i > Len(list) THEN list
  ELSE IF InOp(list[i][1], defaults) THEN DeleteForeign(list, i + 1, defaults)
  ELSE DeleteForeign(deleteKey(list, list[i][1]), i + 1, defaults)

\* queryString.parse and queryString.stringify where they return:
\* createQueryString(initialValue).
queryStringParse(str, defaults) == parseQueryString(str, defaults)
queryStringStringify(obj) == stringifyQueryString(obj)

\* The calls of queryString.parse and of queryString.stringify that throw.
parseRaises == queryString = "parseRaises"
stringifyRaises == queryString = "stringifyRaises"

\* getInitialStateWithQueryString with the defaults assigned over the URL's
\* values.
getInitialStateDefaultsWin(defaults, hasWindow, validUrl, query) ==
  IF hasWindow /\ validUrl /\ ~parseRaises
    THEN LET params == DeleteForeign(URLSearchParams(query), 1, defaults)
             urlParsed == queryStringParse(ParamsToString(params), defaults)
         IN ObjectAssign(ObjectAssign(<<>>, urlParsed), defaults)
    ELSE defaults

\* The try block returns the merge; the catch block (reached when
\* queryString.parse throws) and the fall-through return initialValue.
getInitialStateWithQueryString(defaults, hasWindow, validUrl, query) ==
  IF hasWindow /\ validUrl /\ ~parseRaises
    THEN LET params == DeleteForeign(URLSearchParams(query), 1, defaults)
             urlParsed == queryStringParse(ParamsToString(params), defaults)
         IN ObjectAssign(ObjectAssign(<<>>, defaults), urlParsed)
    ELSE defaults

\* useState's initial value.
InitialState(defaults, sync, hasWindow, validUrl, query) ==
  IF sync THEN getInitialStateWithQueryString(defaults, hasWindow, validUrl, query)
  ELSE defaults

NoOp == [op |-> "init", kind |-> "none"]

NoCall == [fn |-> "none", query |-> <<>>, obj |-> <<>>, out |-> <<>>]

NoTally == [resolved |-> 0, observed |-> 0, pushed |-> 0, delegated |-> 0]

NoTwin == [history |-> <<>>, idx |-> 0, state |-> <<>>, rendered |-> <<>>]

\* ------------------------------------------------------------------------
\* The effect of lines 152-165.
\* ------------------------------------------------------------------------
NoCleanup == 0 - 1

\* useEffect's dependency array.
Deps == <<isSyncPathname, ref>>

\* The identity of a function created now: one no registered listener has.
FreshId(ls) ==
  CHOOSE n \in 0..Len(ls) : \A i \in 1..Len(ls) : ls[i].id # n

\* The handlePopState a run of the effect creates.
Listener(id, sync, defaults) == [id |-> id, sync |-> sync, defaults |-> defaults]

\* window.addEventListener("popstate", handlePopState), where the effect's
\* condition holds.
Registered(ls, hasWindow, sync, defaults) ==
  IF hasWindow THEN Append(ls, Listener(FreshId(ls), sync, defaults)) ELSE ls

\* The cleanup of the effect: window.removeEventListener("popstate",
\* handlePopState) with the function that run registered.
RECURSIVE Removed(_, _)
Removed(ls, id) ==
  IF ls = <<>> THEN <<>>
  ELSE IF Head(ls).id = id THEN Tail(ls)
  ELSE <<Head(ls)>> \o Removed(Tail(ls), id)

\* The effect React has run: its dependencies and what its cleanup removes.
EffectRun(ls, deps) ==
  [deps |-> deps,
   cleanup |-> IF ls = <<>> THEN NoCleanup ELSE ls[Len(ls)].id]

Init ==
  /\ env \in {"browser", "server", "badurl"}
  /\ isSyncPathname \in BOOLEAN
  /\ hasDelegate \in BOOLEAN
  /\ queryString = "default"
  /\ initialValue \in Schemas
  /\ \E q \in InitialQueries :
       history = IF env = "browser" THEN <<q>>
                 ELSE << <<>>, <<>> >>  \* no readable URL: the entries are opaque
  /\ idx = 1
  /\ state = InitialState(initialValue, isSyncPathname, env # "server",
                          env = "browser", history[1])
  /\ rendered = state
  /\ trace = <<>>
  /\ last = NoOp
  /\ ref = 0
  /\ alive = TRUE
  /\ listeners = Registered(<<>>, env # "server", isSyncPathname, initialValue)
  /\ effect = EffectRun(listeners, <<isSyncPathname, 0>>)
  /\ call = NoCall
  /\ tally = NoTally
  /\ twin = NoTwin

\* ------------------------------------------------------------------------
\* The payloads of setState.
\* ------------------------------------------------------------------------
\* The updater function the application passes:
\* s => ({...s, page: s.page === 1 ? 2 : 1})
flipPage(s) ==
  PutKey(s, kPage, IF HasKey(s, kPage) /\ GetKey(s, kPage) = Num(1) THEN Num(2) ELSE Num(1))

\* The replacement object the application passes: a full state.
Replacements(defaults) ==
  { << <<kPage, Num(3)>>, <<kQ, Str(sHello)>> >> }

Replace(obj) == [kind |-> "replace", obj |-> obj]
Update == [kind |-> "update", obj |-> <<>>]
RESET == [kind |-> "reset", obj |-> <<>>]

\* The argument values of setState the model draws.  RESET is not exported and
\* is no value of the declared argument type: only reset's function passes it.
Values(defaults) == {Replace(o) : o \in Replacements(defaults)} \cup {Update}

\* ------------------------------------------------------------------------
\* setState.
\* ------------------------------------------------------------------------
\* const payload = value === RESET ? initialValue
\*               : value instanceof Function ? value(state) : value
Payload(value, defaults, closure) ==
  IF value.kind = "reset" THEN defaults
  ELSE IF value.kind = "update" THEN flipPage(closure)
  ELSE value.obj

\* SearchParams with the URL's values assigned over the payload's.
SearchParamsUrlWins(query, payload, defaults) ==
  LET parsed == queryStringParse(ParamsToString(URLSearchParams(query)), defaults)
  IN queryStringStringify(ObjectAssign(payload, parsed))

\* queryString.stringify(Object.assign(parsed, payload)) on the current query.
SearchParams(query, payload, defaults) ==
  LET parsed == queryStringParse(ParamsToString(URLSearchParams(query)), defaults)
  IN queryStringStringify(ObjectAssign(parsed, payload))

\* url.pathname + "?" + searchParams
ResultUrl(query, payload, defaults) ==
  pathname \o <<"?">> \o SearchParams(query, payload, defaults)

\* WritesUrl without the validity test of location.href.
WritesUrlAnyHref(hasWindow, validUrl, sync) == hasWindow

\* The condition of the URL write of setState.
WritesUrl(hasWindow, validUrl, sync) == hasWindow /\ validUrl

Effect(e, obj, url) == [e |-> e, obj |-> obj, url |-> url]

\* setStateEffects with the URL written before the observer is told.
setStateEffectsWriteFirst(payload, resultUrl, writes, delegate) ==
  << Effect("_setState", payload, <<>>) >>
  \o (IF ~writes THEN <<>>
      ELSE IF delegate THEN <<Effect("onPathnameChange", <<>>, resultUrl)>>
      ELSE <<Effect("pushState", <<>>, resultUrl)>>)
  \o << Effect("onValueChange", payload, <<>>) >>

\* setStateEffects with the history updated also when the delegate is called.
setStateEffectsBothChannels(payload, resultUrl, writes, delegate) ==
  << Effect("_setState", payload, <<>>), Effect("onValueChange", payload, <<>>) >>
  \o (IF writes /\ delegate THEN <<Effect("onPathnameChange", <<>>, resultUrl)>> ELSE <<>>)
  \o (IF writes THEN <<Effect("pushState", <<>>, resultUrl)>> ELSE <<>>)

\* What one call of setState does, in order.
setStateEffects(payload, resultUrl, writes, delegate) ==
  << Effect("_setState", payload, <<>>), Effect("onValueChange", payload, <<>>) >>
  \o (IF ~writes THEN <<>>
      ELSE IF delegate THEN <<Effect("onPathnameChange", <<>>, resultUrl)>>
      ELSE <<Effect("pushState", <<>>, resultUrl)>>)

\* location.search once the session has moved to url.
QueryOf(url) == SubSeq(url, IndexOf(url, "?", 1) + 1, Len(url))

\* history.pushState: the entries after the current one are dropped.
pushState(url) ==
  /\ history' = SubSeq(history, 1, idx) \o <<QueryOf(url)>>
  /\ idx' = idx + 1

\* A call of the setState of a render whose closure holds closureState.  The
\* delegate is the application's: the model records the call and leaves the
\* session where it is.
\* setState has no try: when queryString.parse or queryString.stringify throws
\* (lines 137-138), _setState and onValueChange have run, nothing is written
\* and the exception leaves setState.
Dispatch(op, value, closureState) ==
  LET payload == Payload(value, initialValue, closureState)
      enters == WritesUrl(windowDefined, isValidUrl, isSyncPathname)
      raises == enters /\ (parseRaises \/ stringifyRaises)
      writes == enters /\ ~raises
      resultUrl == IF writes THEN ResultUrl(search, payload, initialValue) ELSE <<>>
  IN /\ alive
     /\ idx < MaxHistory
     /\ state' = payload
     /\ trace' = setStateEffects(payload, resultUrl, writes, hasDelegate)
                   \o (IF raises THEN <<Effect("throw", <<>>, <<>>)>> ELSE <<>>)
     /\ IF writes /\ ~hasDelegate
          THEN pushState(resultUrl)
          ELSE UNCHANGED <<history, idx>>
     /\ last' = [op |-> op, kind |-> value.kind]
     /\ UNCHANGED <<config, lifecycle, rendered, call>>

setState ==
  \E value \in Values(initialValue) :
    Dispatch("setState", value, rendered) /\ UNCHANGED extras

\* reset(): useCallback(() => () => { setState(RESET) }, []) hands the caller
\* the inner function and calls nothing.
ResetCall ==
  /\ alive
  /\ trace' = <<>>
  /\ last' = [op |-> "reset", kind |-> "none"]
  /\ UNCHANGED <<config, lifecycle, history, idx, state, rendered, call>>

reset == ResetCall /\ UNCHANGED extras

\* reset()(): the function reset returned, which calls the setState of the
\* first render.
resetThunk == Dispatch("resetThunk", RESET, rendered) /\ UNCHANGED extras

\* ------------------------------------------------------------------------
\* The popstate listener and the host's re-render.
\* ------------------------------------------------------------------------
\* PopState without the test of isSyncPathname.
PopStateAlways(l, current, query) ==
  getInitialStateWithQueryString(l.defaults, windowDefined, isValidUrl, query)

\* The state the listener l (a handlePopState closure) leaves once the
\* session is at query.
PopState(l, current, query) ==
  IF l.sync
    THEN getInitialStateWithQueryString(l.defaults, windowDefined, isValidUrl, query)
    ELSE current

\* handlePopStateEffects with the observer told of the re-synced state.
handlePopStateEffectsNotifying(sync, next) ==
  IF sync
    THEN <<Effect("_setState", next, <<>>), Effect("onValueChange", next, <<>>)>>
    ELSE <<>>

handlePopStateEffects(sync, next) ==
  IF sync THEN <<Effect("_setState", next, <<>>)>> ELSE <<>>

\* The popstate event: window calls its listeners in registration order.
RECURSIVE Listened(_, _, _)
Listened(ls, current, query) ==
  IF ls = <<>> THEN current
  ELSE Listened(Tail(ls), PopState(Head(ls), current, query), query)

RECURSIVE ListenedEffects(_, _, _)
ListenedEffects(ls, current, query) ==
  IF ls = <<>> THEN <<>>
  ELSE LET next == PopState(Head(ls), current, query)
       IN handlePopStateEffects(Head(ls).sync, next)
            \o ListenedEffects(Tail(ls), next, query)

\* The user goes back or forward to entry j, and the listeners run.
Navigate(j) ==
  /\ windowDefined
  /\ j # idx
  /\ idx' = j
  /\ state' = Listened(listeners, state, history[j])
  /\ trace' = ListenedEffects(listeners, state, history[j])
  /\ last' = [op |-> "popstate", kind |-> "none"]
  /\ UNCHANGED <<config, lifecycle, history, rendered, call>>

handlePopState ==
  \E j \in 1..Len(history) : Navigate(j) /\ UNCHANGED extras

\* React renders again: the new closures capture the current state.
Commit ==
  /\ alive
  /\ rendered # state
  /\ rendered' = state
  /\ UNCHANGED <<config, lifecycle, history, idx, state, trace, last, call>>

Render == Commit /\ UNCHANGED extras

Next == setState \/ reset \/ resetThunk \/ handlePopState \/ Render

Spec == Init /\ [][Next]_vars

\* ------------------------------------------------------------------------
\* RaisingSpec: the sessions whose codec is the application's and throws.
\* ------------------------------------------------------------------------
\* No write succeeds in these sessions, so the history they navigate is the
\* document's own: two entries when the hook is first called.
InitRaising ==
  /\ env \in {"browser", "server", "badurl"}
  /\ isSyncPathname \in BOOLEAN
  /\ hasDelegate \in BOOLEAN
  /\ queryString \in {"parseRaises", "stringifyRaises"}
  /\ initialValue \in Schemas
  /\ \E q1 \in InitialQueries, q2 \in InitialQueries :
       history = IF env = "browser" THEN <<q1, q2>> ELSE << <<>>, <<>> >>
  /\ idx = 2
  /\ state = InitialState(initialValue, isSyncPathname, env # "server",
                          env = "browser", history[2])
  /\ rendered = state
  /\ trace = <<>>
  /\ last = NoOp
  /\ ref = 0
  /\ alive = TRUE
  /\ listeners = Registered(<<>>, env # "server", isSyncPathname, initialValue)
  /\ effect = EffectRun(listeners, <<isSyncPathname, 0>>)
  /\ call = NoCall
  /\ tally = NoTally
  /\ twin = NoTwin

RaisingSpec == InitRaising /\ [][Next]_vars

\* ------------------------------------------------------------------------
\* LifecycleSpec: the host mounts the component, renders it again with
\* other options, and unmounts it.
\* ------------------------------------------------------------------------
\* The identities of the initialValue objects the host passes: a render
\* passes the object of the render before or another one.
Refs == {0, 1}

\* Cleaned with a cleanup that removes nothing: removeEventListener is given
\* a function that was never registered.
CleanedNothing(ls, id) == ls

\* The listeners the cleanup of the last effect leaves.
Cleaned(ls, id) ==
  IF id = NoCleanup THEN ls ELSE Removed(ls, id)

\* The first render is done and its effect has not run yet.  The sessions
\* write through the delegate, so the history they navigate is the
\* document's own: two entries when the hook is first called.
InitLifecycle ==
  /\ env \in {"browser", "server", "badurl"}
  /\ isSyncPathname \in BOOLEAN
  /\ hasDelegate = TRUE
  /\ queryString = "default"
  /\ initialValue \in Schemas
  /\ \E q1 \in InitialQueries, q2 \in InitialQueries :
       history = IF env = "browser" THEN <<q1, q2>> ELSE << <<>>, <<>> >>
  /\ idx = 2
  /\ state = InitialState(initialValue, isSyncPathname, env # "server",
                          env = "browser", history[2])
  /\ rendered = state
  /\ trace = <<>>
  /\ last = NoOp
  /\ ref = 0
  /\ alive = TRUE
  /\ listeners = <<>>
  /\ effect = [deps |-> <<>>, cleanup |-> NoCleanup]
  /\ call = NoCall
  /\ tally = NoTally
  /\ twin = NoTwin

\* React runs the effect after a commit whose dependencies differ from those
\* of the effect it last ran: first that effect's cleanup, then the effect.
useEffect ==
  /\ alive
  /\ effect.deps # Deps
  /\ listeners' = Registered(Cleaned(listeners, effect.cleanup), windowDefined,
                             isSyncPathname, initialValue)
  /\ effect' = EffectRun(listeners', Deps)
  /\ UNCHANGED <<config, ref, alive, history, idx, state, rendered, trace, last,
                 call, extras>>

\* The host renders the component again with another isSyncPathname, another
\* initialValue object (of the same content), or both.
rerender ==
  /\ alive
  /\ effect.deps = Deps
  /\ \E sync \in BOOLEAN, r \in Refs :
       /\ <<sync, r>> # Deps
       /\ isSyncPathname' = sync
       /\ ref' = r
  /\ rendered' = state
  /\ UNCHANGED <<env, hasDelegate, queryString, initialValue, listeners, effect,
                 alive, history, idx, state, trace, last, call, extras>>

\* The host unmounts the component: React runs the cleanup of the last effect.
unmount ==
  /\ alive
  /\ alive' = FALSE
  /\ listeners' = Cleaned(listeners, effect.cleanup)
  /\ effect' = [deps |-> effect.deps, cleanup |-> NoCleanup]
  /\ UNCHANGED <<config, ref, history, idx, state, rendered, trace, last, call,
                 extras>>

NextLifecycle ==
  \/ setState \/ reset \/ resetThunk \/ handlePopState \/ Render
  \/ useEffect \/ rerender \/ unmount

LifecycleSpec == InitLifecycle /\ [][NextLifecycle]_vars

\* ------------------------------------------------------------------------
\* TallySpec: the sessions of Spec, counted.
\* ------------------------------------------------------------------------
PushEffects(tr) == {i \in 1..Len(tr) : tr[i].e = "pushState"}
DelegateEffects(tr) == {i \in 1..Len(tr) : tr[i].e = "onPathnameChange"}
ObserverEffects(tr) == {i \in 1..Len(tr) : tr[i].e = "onValueChange"}

\* The tally after a handler whose effects were tr; resolved counts the runs
\* of setState's payload resolution (lines 125-130).
Tallied(t, tr, resolutions) ==
  [resolved |-> t.resolved + resolutions,
   observed |-> t.observed + Cardinality(ObserverEffects(tr)),
   pushed |-> t.pushed + Cardinality(PushEffects(tr)),
   delegated |-> t.delegated + Cardinality(DelegateEffects(tr))]

talliedSetState ==
  \E value \in Values(initialValue) :
    /\ tally.resolved < MaxCalls
    /\ Dispatch("setState", value, rendered)
    /\ tally' = Tallied(tally, trace', 1)
    /\ UNCHANGED twin

talliedReset == ResetCall /\ tally' = Tallied(tally, trace', 0) /\ UNCHANGED twin

talliedResetThunk ==
  /\ tally.resolved < MaxCalls
  /\ Dispatch("resetThunk", RESET, rendered)
  /\ tally' = Tallied(tally, trace', 1)
  /\ UNCHANGED twin

talliedPopState ==
  \E j \in 1..Len(history) :
    Navigate(j) /\ tally' = Tallied(tally, trace', 0) /\ UNCHANGED twin

talliedRender == Commit /\ UNCHANGED <<tally, twin>>

NextTally ==
  talliedSetState \/ talliedReset \/ talliedResetThunk \/ talliedPopState \/ talliedRender

TallySpec == Init /\ [][NextTally]_vars

\* ------------------------------------------------------------------------
\* TwinSpec: two sessions without sync mode, with the same options and
\* defaults and the same calls of setState and reset.  The first is never
\* navigated; the second starts at any URL (that of the first or another)
\* and is navigated back and forth at any time.  Two sessions that both
\* agree with the first at every step agree with each other.
\* ------------------------------------------------------------------------
InitTwin ==
  /\ env = "browser"
  /\ isSyncPathname = FALSE
  /\ hasDelegate \in BOOLEAN
  /\ queryString = "default"
  /\ initialValue \in Schemas
  /\ \E q1 \in InitialQueries, q2 \in InitialQueries :
       /\ history = <<q1>>
       /\ twin = [history |-> <<q2>>, idx |-> 1,
                  state |-> InitialState(initialValue, isSyncPathname, TRUE, TRUE, q2),
                  rendered |-> InitialState(initialValue, isSyncPathname, TRUE, TRUE, q2)]
  /\ idx = 1
  /\ state = InitialState(initialValue, isSyncPathname, TRUE, TRUE, history[1])
  /\ rendered = state
  /\ trace = <<>>
  /\ last = NoOp
  /\ ref = 0
  /\ alive = TRUE
  /\ listeners = Registered(<<>>, TRUE, isSyncPathname, initialValue)
  /\ effect = EffectRun(listeners, <<isSyncPathname, 0>>)
  /\ call = NoCall
  /\ tally = NoTally

\* setState(value) in the session t: Dispatch on t's history and closure.
TwinDispatch(t, value) ==
  LET payload == Payload(value, initialValue, t.rendered)
      enters == WritesUrl(windowDefined, isValidUrl, isSyncPathname)
      writes == enters /\ ~(parseRaises \/ stringifyRaises)
      pushes == writes /\ ~hasDelegate
      resultUrl == IF writes THEN ResultUrl(t.history[t.idx], payload, initialValue)
                   ELSE <<>>
  IN [history |-> IF pushes THEN SubSeq(t.history, 1, t.idx) \o <<QueryOf(resultUrl)>>
                  ELSE t.history,
      idx |-> IF pushes THEN t.idx + 1 ELSE t.idx,
      state |-> payload,
      rendered |-> t.rendered]

\* The same call of setState in both sessions.
bothSetState ==
  \E value \in Values(initialValue) :
    /\ twin.idx < MaxHistory
    /\ Dispatch("setState", value, rendered)
    /\ twin' = TwinDispatch(twin, value)
    /\ UNCHANGED tally

\* reset() in both sessions.
bothReset == ResetCall /\ UNCHANGED <<tally, twin>>

\* The function reset returned, called in both sessions.
bothResetThunk ==
  /\ twin.idx < MaxHistory
  /\ Dispatch("resetThunk", RESET, rendered)
  /\ twin' = TwinDispatch(twin, RESET)
  /\ UNCHANGED tally

\* The host renders both sessions again.
bothRender ==
  /\ alive
  /\ rendered # state \/ twin.rendered # twin.state
  /\ rendered' = state
  /\ twin' = [twin EXCEPT !.rendered = twin.state]
  /\ UNCHANGED <<config, lifecycle, history, idx, state, trace, last, call, tally>>

\* A back or forward navigation of the second session: Navigate on its
\* history.
twinPopState ==
  \E j \in 1..Len(twin.history) :
    /\ j # twin.idx
    /\ twin' = [twin EXCEPT !.idx = j,
                            !.state = Listened(listeners, twin.state, twin.history[j])]
    /\ UNCHANGED <<config, lifecycle, history, idx, state, rendered, trace, last,
                   call, tally>>

NextTwin ==
  bothSetState \/ bothReset \/ bothResetThunk \/ bothRender \/ twinPopState

TwinSpec == InitTwin /\ [][NextTwin]_vars

\* ------------------------------------------------------------------------
\* CodecSpec: the pure functions, applied to inputs drawn from bounded sets.
\* ------------------------------------------------------------------------
\* The longest query (in pairs) CodecSpec draws.
MaxPairs == 3

\* The defaults objects of CodecSpec: page is number-typed in one and
\* string-typed in the other, q the other way round.
CodecSchemas ==
  { Defaults,
    << <<kPage, Str(<<"1">>)>>, <<kQ, Num(5)>>, <<kTags, Arr(<<>>)>> >> }

\* The raw "name=value" pairs the queries are made of: numeric, signed and
\* padded, non-numeric and blank values of schema keys, two foreign keys (one
\* value percent-encoded) and an inherited property name.
RawPairs ==
  { <<kPage, <<"2">>>>, <<kPage, <<"+", "0", "5">>>>, <<kQ, sHello>>, <<kQ, <<"+">>>>,
    <<kRef, sAbc>>, <<kExtra, <<"b", "%", "2", "6">>>>, <<kValueOf, <<"1">>>> }

RECURSIVE SeqsUpTo(_, _)
SeqsUpTo(S, n) ==
  IF n = 0 THEN {<<>>}
  ELSE LET shorter == SeqsUpTo(S, n - 1)
       IN shorter \cup {Append(q, x) : q \in {r \in shorter : Len(r) = n - 1}, x \in S}

CodecQueries == {RawQuery(pairs) : pairs \in SeqsUpTo(RawPairs, MaxPairs)}

\* The values of a state's key: scalars, and arrays of none, one and two.
StateValues ==
  { Str(<<>>), Str(<<"a", " ", "&">>), Str(<<"0", "5">>), Num(7), Num(0 - 12),
    Arr(<<>>), Arr(<<Str(<<"a">>)>>), Arr(<<Str(<<"a">>), Str(<<"=", "b">>)>>),
    Arr(<<Num(1), Num(2)>>) }

\* The state objects over a schema: one of StateValues for each key.
RECURSIVE StatesOver(_)
StatesOver(defaults) ==
  IF defaults = <<>> THEN {<<>>}
  ELSE {<< <<Head(defaults)[1], v>> >> \o rest :
          v \in StateValues, rest \in StatesOver(Tail(defaults))}

\* The payloads of the URL write: a full state, one with a null, its keys in
\* another order and a key the URL may hold as foreign, one with arrays.
WritePayloads ==
  { << <<kPage, Num(3)>>, <<kQ, Str(sHello)>> >>,
    << <<kQ, Null>>, <<kPage, Num(2)>>, <<kRef, Str(<<"z">>)>> >>,
    << <<kPage, Str(<<"0", "5">>)>>,
       <<kTags, Arr(<<Str(<<"a">>), Str(<<"b", " ">>)>>)>>, <<kQ, Arr(<<>>)>> >> }

Call(fn, query, obj, out) == [fn |-> fn, query |-> query, obj |-> obj, out |-> out]

InitCodec ==
  /\ env = "browser"
  /\ isSyncPathname = TRUE
  /\ hasDelegate = FALSE
  /\ queryString = "default"
  /\ initialValue \in CodecSchemas
  /\ history = << <<>> >>
  /\ idx = 1
  /\ state = initialValue
  /\ rendered = initialValue
  /\ trace = <<>>
  /\ last = NoOp
  /\ ref = 0
  /\ alive = TRUE
  /\ listeners = Registered(<<>>, env # "server", isSyncPathname, initialValue)
  /\ effect = EffectRun(listeners, <<isSyncPathname, 0>>)
  /\ call = NoCall
  /\ tally = NoTally
  /\ twin = NoTwin

hook == <<config, lifecycle, history, idx, state, rendered, trace, last, extras>>

\* Each behaviour of CodecSpec makes one call: every action starts from NoCall.

\* queryString.parse(q)
applyParse ==
  /\ call = NoCall
  /\ \E q \in CodecQueries :
       call' = Call("parse", q, <<>>, queryStringParse(q, initialValue))
  /\ UNCHANGED hook

\* queryString.parse(queryString.stringify(s))
applyRoundTrip ==
  /\ call = NoCall
  /\ \E s \in StatesOver(initialValue) :
       call' = Call("roundtrip", queryStringStringify(s), s,
                    queryStringParse(queryStringStringify(s), initialValue))
  /\ UNCHANGED hook

\* The initial state of a session started at query q, sync mode on.
applyInitialState ==
  /\ call = NoCall
  /\ \E q \in CodecQueries :
       call' = Call("initial", q, <<>>, InitialState(initialValue, TRUE, TRUE, TRUE, q))
  /\ UNCHANGED hook

\* The query setState(p) writes when the current query is q.
applySearchParams ==
  /\ call = NoCall
  /\ \E q \in CodecQueries, p \in WritePayloads :
       call' = Call("write", q, p, QueryOf(ResultUrl(q, p, initialValue)))
  /\ UNCHANGED hook

NextCodec == applyParse \/ applyRoundTrip \/ applyInitialState \/ applySearchParams

CodecSpec == InitCodec /\ [][NextCodec]_vars

\* ------------------------------------------------------------------------
\* What the claims speak of.
\* ------------------------------------------------------------------------
\* The positions of the URL writes and of the observer calls in a trace.
WriteEffects(tr) == {i \in 1..Len(tr) : tr[i].e \in {"pushState", "onPathnameChange"}}
ObserverCalls(tr) == {i \in 1..Len(tr) : tr[i].e = "onValueChange"}

StrArr(all) == Arr([i \in 1..Len(all) |-> Str(all[i])])

\* A numeric string: not empty, not blank, a finite number.
Numeric(str) == Trim(str) # <<>> /\ IsNumericLiteral(Trim(str))

\* The value the codec owes a schema key whose occurrences in the query are
\* all (one at least) and whose default is d.
SchemaCoerced(all, d) ==
  IF Len(all) > 1 THEN StrArr(all)
  ELSE IF d.t = "num" /\ Numeric(all[1]) THEN Num(StrToNum(all[1]))
  ELSE Str(all[1])

\* The Reconciler of the design: the defaults, each key present in the query
\* taking the query's (coerced) value; nothing else.
Reconciler(defaults, query) ==
  LET params == URLSearchParams(query) IN
  [i \in 1..Len(defaults) |->
     LET all == getAll(params, defaults[i][1]) IN
     <<defaults[i][1],
       IF all = <<>> THEN defaults[i][2] ELSE SchemaCoerced(all, defaults[i][2])>>]

\* The occurrences a value takes in a query: one per element of an array, one
\* for a scalar.
Occurrences(val) ==
  IF val.t = "arr" THEN [i \in 1..Len(val.v) |-> ToStr(val.v[i])] ELSE <<ToStr(val)>>

\* A value up to the coercion the schema prescribes for key k: the string
\* form of a scalar, turned into a number under a number-typed default; the
\* string forms of an array's elements.
Canon(defaults, k, val) ==
  IF val.t = "arr" THEN Arr([i \in 1..Len(val.v) |-> Str(ToStr(val.v[i]))])
  ELSE IF HasKey(defaults, k) /\ GetKey(defaults, k).t = "num"
    THEN toNumberable(Str(ToStr(val)))
  ELSE Str(ToStr(val))

SameUpToCoercion(defaults, a, b) ==
  /\ Len(a) = Len(b)
  /\ KeySet(a) = KeySet(b)
  /\ \A k \in KeySet(b) : Canon(defaults, k, GetKey(a, k)) = Canon(defaults, k, GetKey(b, k))

\* ------------------------------------------------------------------------
\* The claims.
\* ------------------------------------------------------------------------
\* C1: after the reconciliation at initialization and at every navigation
\* re-sync, the state has exactly the keys of the defaults.
C1_SchemaClosure ==
  (isSyncPathname /\ env = "browser" /\ last.op \in {"init", "popstate"})
    => KeySet(state) = KeySet(initialValue)

\* C2: after the reset action returned by the hook is called, the state is
\* the original defaults.
C2_ResetLaw == last.op = "reset" => state = initialValue

\* C3: in sync mode a back/forward event replaces the state by
\* Reconciler(defaults, query of the navigated-to URL), and its handling
\* writes no history entry and calls no delegate.
C3_PopStateResync ==
  (last.op = "popstate" /\ isSyncPathname /\ env = "browser")
    => /\ state = Reconciler(initialValue, search)
       /\ WriteEffects(trace) = {}

\* C4: with sync mode disabled no setState or reset call writes the URL,
\* neither by a history update nor through the delegate.
C4_NoWriteWhenSyncOff ==
  (~isSyncPathname /\ last.op \in {"setState", "reset", "resetThunk"})
    => WriteEffects(trace) = {}

\* C5: the query setState(p) writes carries exactly p's value for every key of
\* p that is not null, carries every foreign key of the previous query with
\* its previous values, and holds no key of neither.
C5_WriteBack ==
  call.fn = "write" =>
    LET old == URLSearchParams(call.query)
        new == URLSearchParams(call.out)
        p == call.obj
    IN /\ \A i \in 1..Len(p) :
            p[i][2].t # "null" => getAll(new, p[i][1]) = Occurrences(p[i][2])
       /\ \A k \in KeySet(old) :
            (k \notin KeySet(initialValue) /\ k \notin KeySet(p))
              => getAll(new, k) = getAll(old, k)
       /\ KeySet(new) \subseteq KeySet(p) \cup KeySet(old)

\* C5's case: a repeated foreign key and a schema key in the previous query,
\* and a payload that overwrites the schema key.
C5_Witness ==
  /\ call.fn = "write"
  /\ Len(getAll(URLSearchParams(call.query), kExtra)) = 2
  /\ getAll(URLSearchParams(call.query), kPage) = << <<"2">> >>
  /\ HasKey(call.obj, kPage) /\ GetKey(call.obj, kPage) = Num(3)
  /\ getAll(URLSearchParams(call.out), kPage) = << <<"3">> >>

\* C6: one setState call invokes the observer exactly once, with the new
\* state, before the URL write of the same call, whatever the payload kind.
C6_ObserverBeforeWrite ==
  last.op \in {"setState", "resetThunk"} =>
    /\ Cardinality(ObserverCalls(trace)) = 1
    /\ \A i \in ObserverCalls(trace) :
         /\ trace[i].obj = state
         /\ \A j \in WriteEffects(trace) : i < j
    /\ last.kind = "reset" => state = initialValue
    /\ last.kind = "replace" => state \in Replacements(initialValue)

\* C6's case: an updater payload whose call wrote the URL.
C6_Witness ==
  /\ last.op = "setState" /\ last.kind = "update"
  /\ WriteEffects(trace) # {}
  /\ state # initialValue

\* C7: the initial state (sync mode, valid URL) holds for every schema key the
\* coerced value of the URL when the URL has the key, and the default when
\* it has not.
C7_InitialState ==
  call.fn = "initial" =>
    \A i \in 1..Len(initialValue) :
      LET k == initialValue[i][1]
          all == getAll(URLSearchParams(call.query), k)
      IN /\ HasKey(call.out, k)
         /\ GetKey(call.out, k) =
              IF all = <<>> THEN initialValue[i][2]
              ELSE SchemaCoerced(all, initialValue[i][2])

\* C7's case: defaults {page: 1, q: ""} and the URL ?page=2&q=hi.
C7_Witness ==
  /\ call.fn = "initial"
  /\ initialValue = Defaults
  /\ call.query = RawQuery(<< <<kPage, <<"2">>>>, <<kQ, sHello>> >>)
  /\ call.out = << <<kPage, Num(2)>>, <<kQ, Str(sHello)>> >>

\* C8: a key that occurs once in the query is parsed to a number exactly when
\* the defaults hold that key with a number and the string is numeric;
\* otherwise the decoded string is kept.
C8_SchemaDirectedCoercion ==
  call.fn = "parse" =>
    LET params == URLSearchParams(call.query) IN
    \A k \in KeySet(params) :
      Len(getAll(params, k)) = 1 =>
        LET str == getAll(params, k)[1]
            coerces == /\ HasKey(initialValue, k)
                       /\ GetKey(initialValue, k).t = "num"
                       /\ Numeric(str)
        IN /\ HasKey(call.out, k)
           /\ GetKey(call.out, k) = IF coerces THEN Num(StrToNum(str)) ELSE Str(str)

\* C8's case: "+05" for a number-typed key next to "hi" for a string-typed one.
C8_Witness ==
  /\ call.fn = "parse"
  /\ initialValue = Defaults
  /\ call.query = RawQuery(<< <<kPage, <<"+", "0", "5">>>>, <<kQ, sHello>> >>)
  /\ call.out = << <<kPage, Num(5)>>, <<kQ, Str(sHello)>> >>

\* C9: a key that occurs more than once is parsed to the array of its
\* occurrences in query order, whatever the schema; a key that occurs once is
\* parsed to a scalar.
C9_MultiValue ==
  call.fn = "parse" =>
    LET params == URLSearchParams(call.query) IN
    \A k \in KeySet(params) :
      LET all == getAll(params, k) IN
      /\ HasKey(call.out, k)
      /\ Len(all) > 1 => GetKey(call.out, k) = StrArr(all)
      /\ Len(all) = 1 => GetKey(call.out, k).t # "arr"

\* C9's case: a number-typed key twice, numeric both times, and a key once.
C9_Witness ==
  /\ call.fn = "parse"
  /\ initialValue = Defaults
  /\ call.query = RawQuery(<< <<kPage, <<"2">>>>, <<kQ, sHello>>, <<kPage, <<"+", "0", "5">>>> >>)
  /\ GetKey(call.out, kPage) = Arr(<<Str(<<"2">>), Str(<<" ", "0", "5">>)>>)
  /\ GetKey(call.out, kQ) = Str(sHello)

\* C10, as claimed: parse(stringify(state)) reproduces every state of scalars
\* and arrays of scalars, up to the coercion the schema prescribes.
C10_RoundTrip ==
  call.fn = "roundtrip" => SameUpToCoercion(initialValue, call.out, call.obj)

\* C10, amended: it does when every array of the state has two elements at
\* least.
C10_RoundTripLongArrays ==
  (/\ call.fn = "roundtrip"
   /\ \A i \in 1..Len(call.obj) :
        call.obj[i][2].t = "arr" => Len(call.obj[i][2].v) >= 2)
    => SameUpToCoercion(initialValue, call.out, call.obj)

\* C10's case: an array of two numbers, a padded number as a string under a
\* number-typed default, and a string of characters the encoding escapes.
C10_Witness ==
  /\ call.fn = "roundtrip"
  /\ initialValue # Defaults
  /\ call.obj = << <<kPage, Str(<<"a", " ", "&">>)>>, <<kQ, Str(<<"0", "5">>)>>,
                   <<kTags, Arr(<<Num(1), Num(2)>>)>> >>
  /\ call.out = << <<kPage, Str(<<"a", " ", "&">>)>>, <<kQ, Num(5)>>,
                   <<kTags, Arr(<<Str(<<"1">>), Str(<<"2">>)>>)>> >>

\* C11: no exception of initialization, setState, reset or the navigation
\* re-sync reaches the caller, also when the application's codec throws in
\* parse or in stringify.
C11_NoExceptionEscapes ==
  \A i \in 1..Len(trace) : trace[i].e # "throw"

\* C12: without a window, or with a location that is no valid URL, the
\* initial state and the state after a navigation re-sync are the defaults,
\* and a setState replaces the state and tells the observer once but writes
\* no history entry and calls no delegate.
C12_DegradedEnvironment ==
  env # "browser" =>
    /\ last.op = "init" => state = initialValue
    /\ (last.op = "popstate" /\ isSyncPathname) => state = initialValue
    /\ last.op \in {"setState", "resetThunk"} =>
         /\ trace[1] = Effect("_setState", state, <<>>)
         /\ \E i \in 1..Len(trace) :
              ObserverCalls(trace) = {i} /\ trace[i].obj = state
         /\ WriteEffects(trace) = {}
         /\ last.kind = "replace" => state \in Replacements(initialValue)
         /\ last.kind = "reset" => state = initialValue
    /\ history = << <<>>, <<>> >>

\* C12's case: a location that is no valid URL and a delegate; a setState
\* replaced the state, the host rendered it, and a navigation event
\* re-synced the state to the defaults.
C12_Witness ==
  /\ env = "badurl" /\ isSyncPathname /\ hasDelegate
  /\ last.op = "popstate"
  /\ rendered \in Replacements(initialValue)
  /\ state = initialValue

\* C13: with a valid current URL every call of setState makes exactly one URL
\* write: with a delegate one call of the delegate with pathname + "?" +
\* query and no history update, without one a single history.pushState and
\* no delegate call; n calls make n writes.
C13_OneWritePerCall ==
  env = "browser" =>
    /\ tally.pushed + tally.delegated = tally.resolved
    /\ hasDelegate => (tally.pushed = 0 /\ Len(history) = 1)
    /\ ~hasDelegate => tally.delegated = 0
    /\ last.op \in {"setState", "resetThunk"} =>
         \E i \in 1..Len(trace) :
           LET url == trace[i].url IN
           /\ WriteEffects(trace) = {i}
           /\ trace[i].e = IF hasDelegate THEN "onPathnameChange" ELSE "pushState"
           /\ SubSeq(url, 1, Len(pathname) + 1) = pathname \o <<"?">>
           /\ getAll(URLSearchParams(QueryOf(url)), kPage)
                = << ToStr(GetKey(state, kPage)) >>
           /\ ~hasDelegate => search = QueryOf(url)

\* C13's case: two calls of setState in a session with a delegate.
C13_Witness ==
  /\ env = "browser" /\ hasDelegate
  /\ last.op = "setState"
  /\ tally.resolved = 2 /\ tally.delegated = 2

\* C14: whatever the changes of isSyncPathname and of the initialValue
\* object, the hook has at most one popstate listener registered at any
\* time; once the effect of a change has run, the one listener is the one
\* that effect registered (the one before is removed); after the unmount
\* none is left.
C14_SingleSubscription ==
  /\ Len(listeners) <= 1
  /\ \A i \in 1..Len(listeners) :
       /\ listeners[i].id = effect.cleanup
       /\ effect.deps = Deps =>
            (listeners[i].sync = isSyncPathname /\ listeners[i].defaults = initialValue)
  /\ (alive /\ effect.deps = Deps /\ windowDefined) => Len(listeners) = 1
  /\ ~alive => listeners = <<>>

\* C14's case: a session started in sync mode (its initial state is the
\* URL's) was rendered again with sync mode off and another initialValue
\* object, the effect has run again, and the one listener is the new one.
C14_Witness ==
  /\ alive
  /\ last = NoOp /\ state # initialValue
  /\ ~isSyncPathname /\ ref = 1
  /\ effect.deps = Deps
  /\ Len(listeners) = 1
  /\ ~listeners[1].sync

\* C15: in sync mode, writing to the history directly and with a valid URL,
\* after any sequence of setState calls, reset calls and back/forward events
\* the state is Reconciler(defaults, query of the current URL): what a
\* reload would start from.
C15_StateUrlConsistency ==
  (isSyncPathname /\ ~hasDelegate /\ env = "browser")
    => state = Reconciler(initialValue, search)

\* C16: a function payload is applied to the state the most recent update or
\* navigation re-sync left, also when no render has happened since, and its
\* result is the new state.  (A step that sets last to an updater call and
\* leaves rendered alone is a call of setState with the updater.)
C16_UpdaterSeesCurrentState ==
  [][(last'.op = "setState" /\ last'.kind = "update" /\ rendered' = rendered)
       => state' = flipPage(state)]_vars

\* C17: in sync mode with direct history writes every setState adds one
\* history entry after the current one and makes it current, and a back
\* navigation makes the entry before current again, changes no entry and
\* leaves the state Reconciler(defaults, query of that entry): after two
\* calls of setState the first back restores the first call's URL and
\* state, the second the initial URL's.
C17_BackNavigationUndoes ==
  [][(isSyncPathname /\ ~hasDelegate /\ env = "browser") =>
       /\ (last'.op \in {"setState", "resetThunk"} /\ rendered' = rendered) =>
            /\ idx' = idx + 1
            /\ Len(history') = idx + 1
            /\ SubSeq(history', 1, idx) = SubSeq(history, 1, idx)
       /\ idx' < idx =>
            /\ history' = history
            /\ state' = Reconciler(initialValue, history[idx'])]_vars

\* C18: with sync mode off the initial state is the defaults, a navigation
\* event changes nothing, and two sessions with the same defaults and the
\* same calls of setState and reset, at different URLs and with different
\* navigation events, are in the same state after every step: the session
\* that is navigated is in the state of the one that is not.
C18_SyncOffIndependence ==
  ~isSyncPathname =>
    /\ last.op = "init" => (state = initialValue /\ twin.state = initialValue)
    /\ state = twin.state
    /\ rendered = twin.rendered

\* C18's case: the sessions started at different URLs, both have been
\* updated twice, and the second has gone back to its first URL.
C18_Witness ==
  /\ ~isSyncPathname
  /\ state # initialValue
  /\ idx = 3
  /\ Len(twin.history) = 3 /\ twin.idx = 1
  /\ history[1] # twin.history[1]

\* C19: over any sequence of operations the observer has been invoked as
\* many times as setState has resolved a payload (the reset sentinel
\* included), and neither the initialization nor a navigation re-sync
\* invokes it.
C19_ObserverTiedToSetState ==
  /\ tally.observed = tally.resolved
  /\ last.op \in {"init", "popstate"} => ObserverCalls(trace) = {}
  /\ last.op = "init" => tally.observed = 0

\* C19's case: two calls of setState, then a navigation whose re-sync
\* changed the state.
C19_Witness ==
  /\ isSyncPathname /\ env = "browser"
  /\ last.op = "popstate"
  /\ trace # <<>> /\ state # rendered
  /\ tally.resolved = 2 /\ tally.observed = 2

====
